---- MODULE Spec2Model ----
(***************************************************************************)
(* Model of the Airflow DAGs of crate-astro-tutorial.                      *)
(*                                                                         *)
(*   dags/data_cleanup_dag.py : the retention pass (process_partitions)    *)
(*   dags/nyc_taxi_dag.py     : the taxi ingestion DAG                     *)
(*                                                                         *)
(* Every PostgresOperator(...).execute() call is one step.  A call either  *)
(* returns, having applied its statement, or raises, having applied        *)
(* nothing; the DAG code has no try/except, so a raise ends the callable.  *)
(***************************************************************************)
EXTENDS Integers, Sequences, FiniteSets

VARIABLES
    policies_obj,   \* data_cleanup: the batch pulled from XCom (list of 8-tuples)
    idx,            \* data_cleanup: iteration of "for policy in policies_obj" (1-based)
    step,           \* data_cleanup: which statement of reallocate_partition is next (1 or 2)
    status,         \* data_cleanup: "running" | "done" | "failed" (exception left the callable)
    log,            \* data_cleanup: the execute() calls made so far, in call order
    warnings,       \* data_cleanup: iterations that logged "Ignoring unknown strategy"
    tracking,       \* data_cleanup: retention_policy_tracking, (schema, table) -> last value
    run,                  \* nyc_taxi: number of the current DAG run
    task,                 \* nyc_taxi: state of each task of the current DAG run
    xcom,                 \* nyc_taxi: return value of each task of the current DAG run
    load_files_processed, \* nyc_taxi: table nyc_taxi.load_files_processed (rows in insert order)
    load_trips_staging,   \* nyc_taxi: table nyc_taxi.load_trips_staging
    trips,                \* nyc_taxi: table nyc_taxi.trips
    url_idx,              \* nyc_taxi: iteration of "for missing_url in missing_urls"
    url_step,             \* nyc_taxi: the statement of the iteration to execute next
    taxi_log,             \* nyc_taxi: execute() calls of process_new_files in this run
    leftover              \* nyc_taxi: what staging held when this DAG run started

cleanupVars == <<policies_obj, idx, step, status, log, warnings, tracking>>

taxiVars == <<run, task, xcom, load_files_processed, load_trips_staging, trips,
              url_idx, url_step, taxi_log, leftover>>

vars == <<policies_obj, idx, step, status, log, warnings, tracking,
          run, task, xcom, load_files_processed, load_trips_staging, trips,
          url_idx, url_step, taxi_log, leftover>>

---------------------------------------------------------------------------
(* Bounds *)

MaxBatch == 3
MaxValue == 2
MaxRuns == 2
MaxLines == 3
MaxPreloaded == 2

---------------------------------------------------------------------------
(* data_cleanup_dag.py : inputs *)

NULL == "null"

Schemas == {"doc"}
Tables == {"t1", "t2"}
Strategies == {"delete", "reallocate", "archive"}
PartitionValues == 1..MaxValue

TableFqn(s, t) ==
    IF t = "t1" THEN "doc.t1" ELSE "doc.t2"

\* One row of include/data_cleanup_retrieve_policies.sql: 8 positional fields.
PolicyRows ==
    { <<s, t, TableFqn(s, t), "day", v, st,
        IF st = "reallocate" THEN "zone" ELSE NULL,
        IF st = "reallocate" THEN "cold" ELSE NULL>> :
        s \in Schemas, t \in Tables, v \in PartitionValues, st \in Strategies }

SeqsUpTo(S, n) == UNION { [1..k -> S] : k \in 0..n }

TrackingKeys == Schemas \X Tables

\* No tracking row yet for a table: the tracking table is created empty.
NoMark == 0

---------------------------------------------------------------------------
(* data_cleanup_dag.py : pure helpers *)

map_policy(policy) ==
    [ schema_name                  |-> policy[1],
      table_name                   |-> policy[2],
      table_fqn                    |-> policy[3],
      column_name                  |-> policy[4],
      partition_value              |-> policy[5],
      strategy                     |-> policy[6],
      reallocation_attribute_name  |-> policy[7],
      reallocation_attribute_value |-> policy[8] ]

\* Mutant of delete_stmt: the statement names table_name instead of table_fqn.
delete_stmt_unqualified(partition) ==
    [ kind   |-> "delete",
      table  |-> partition.table_name,
      column |-> partition.column_name,
      value  |-> partition.partition_value ]

\* The statement delete_partition executes (data_cleanup_delete.sql, formatted).
delete_stmt(partition) ==
    [ kind   |-> "delete",
      table  |-> partition.table_fqn,
      column |-> partition.column_name,
      value  |-> partition.partition_value ]

\* The first statement of reallocate_partition (data_cleanup_reallocate.sql).
reallocate_stmt(partition) ==
    [ kind            |-> "reallocate",
      table           |-> partition.table_fqn,
      column          |-> partition.column_name,
      value           |-> partition.partition_value,
      attribute_name  |-> partition.reallocation_attribute_name,
      attribute_value |-> partition.reallocation_attribute_value ]

\* The second statement of reallocate_partition (data_cleanup_reallocate_tracking.sql).
tracking_stmt(partition) ==
    [ kind            |-> "track",
      table           |-> partition.table_name,
      schema          |-> partition.schema_name,
      partition_value |-> partition.partition_value ]

\* Mutant of reallocate_stmts: tracking is updated before the partition is moved.
reallocate_stmts_swapped(partition) ==
    <<tracking_stmt(partition), reallocate_stmt(partition)>>

\* The statements reallocate_partition executes, in this order.
reallocate_stmts(partition) ==
    <<reallocate_stmt(partition), tracking_stmt(partition)>>

\* Mutant of process_partition: "else" in place of the "elif", no final branch.
process_partition_no_else(partition) ==
    IF partition.strategy = "delete" THEN "delete"
    ELSE "reallocate"

\* Mutant of process_partition: the two branches call each other's function.
process_partition_swapped(partition) ==
    IF partition.strategy = "delete" THEN "reallocate"
    ELSE IF partition.strategy = "reallocate" THEN "delete"
    ELSE "ignore"

\* The branch process_partition takes.
process_partition(partition) ==
    IF partition.strategy = "delete" THEN "delete"
    ELSE IF partition.strategy = "reallocate" THEN "reallocate"
    ELSE "ignore"

\* Mutant of PolicyAt: the loop walks the batch from its end.
PolicyAt_reversed(k) == policies_obj[Len(policies_obj) + 1 - k]

\* The record the k-th iteration of "for policy in policies_obj" handles.
PolicyAt(k) == policies_obj[k]

CurPartition == map_policy(PolicyAt(idx))

\* The tracking statement saves the current value for (schema, table);
\* the other statements leave the tracking table alone.
ApplyTracking(stmt) ==
    IF stmt.kind = "track"
    THEN [tracking EXCEPT ![<<stmt.schema, stmt.table>>] = stmt.partition_value]
    ELSE tracking

Call(stmt, ok) == [rec |-> idx, stmt |-> stmt, ok |-> ok]

InLoop == status = "running" /\ idx <= Len(policies_obj)

\* Mutant of Raise: the exception is caught and the statement is tried again.
Raise_retried == status' = status

\* What an exception out of execute() does to the callable.
Raise == status' = "failed"

---------------------------------------------------------------------------
(* data_cleanup_dag.py : steps *)

\* The taxi DAG is not part of the retention pass.
TaxiIdle ==
    /\ run = 0
    /\ task = <<>>
    /\ xcom = <<>>
    /\ load_files_processed = <<>>
    /\ load_trips_staging = <<>>
    /\ trips = <<>>
    /\ url_idx = 0
    /\ url_step = "copy"
    /\ taxi_log = <<>>
    /\ leftover = <<>>

InitCleanup ==
    /\ policies_obj \in SeqsUpTo(PolicyRows, MaxBatch)
    /\ idx = 1
    /\ step = 1
    /\ status = "running"
    /\ log = <<>>
    /\ warnings = <<>>
    /\ tracking = [k \in TrackingKeys |-> NoMark]
    /\ TaxiIdle

delete_partition ==
    /\ InLoop
    /\ process_partition(CurPartition) = "delete"
    /\ log' = Append(log, Call(delete_stmt(CurPartition), TRUE))
    /\ idx' = idx + 1
    /\ UNCHANGED <<policies_obj, step, status, warnings, tracking>>
    /\ UNCHANGED taxiVars

reallocate_partition ==
    /\ InLoop
    /\ process_partition(CurPartition) = "reallocate"
    /\ step = 1
    /\ log' = Append(log, Call(reallocate_stmts(CurPartition)[1], TRUE))
    /\ tracking' = ApplyTracking(reallocate_stmts(CurPartition)[1])
    /\ step' = 2
    /\ UNCHANGED <<policies_obj, idx, status, warnings>>
    /\ UNCHANGED taxiVars

reallocate_track ==
    /\ InLoop
    /\ process_partition(CurPartition) = "reallocate"
    /\ step = 2
    /\ log' = Append(log, Call(reallocate_stmts(CurPartition)[2], TRUE))
    /\ tracking' = ApplyTracking(reallocate_stmts(CurPartition)[2])
    /\ step' = 1
    /\ idx' = idx + 1
    /\ UNCHANGED <<policies_obj, status, warnings>>
    /\ UNCHANGED taxiVars

ignore_unknown ==
    /\ InLoop
    /\ process_partition(CurPartition) = "ignore"
    /\ warnings' = Append(warnings, idx)
    /\ idx' = idx + 1
    /\ UNCHANGED <<policies_obj, step, status, log, tracking>>
    /\ UNCHANGED taxiVars

\* The statement the loop is about to execute, when there is one.
PendingStmt ==
    IF process_partition(CurPartition) = "delete" THEN delete_stmt(CurPartition)
    ELSE reallocate_stmts(CurPartition)[step]

execute_raises ==
    /\ InLoop
    /\ process_partition(CurPartition) \in {"delete", "reallocate"}
    /\ log' = Append(log, Call(PendingStmt, FALSE))
    /\ Raise
    /\ UNCHANGED <<policies_obj, idx, step, warnings, tracking>>
    /\ UNCHANGED taxiVars

process_partitions_returns ==
    /\ status = "running"
    /\ idx > Len(policies_obj)
    /\ status' = "done"
    /\ UNCHANGED <<policies_obj, idx, step, log, warnings, tracking>>
    /\ UNCHANGED taxiVars

NextCleanup ==
    \/ delete_partition
    \/ reallocate_partition
    \/ reallocate_track
    \/ ignore_unknown
    \/ execute_raises
    \/ process_partitions_returns

SpecCleanup == InitCleanup /\ [][NextCleanup]_vars

---------------------------------------------------------------------------
(* data_cleanup_dag.py : properties *)

\* Positions of the fields in a policy row, as the specification lists them.
RowSchema(row)    == row[1]
RowTable(row)     == row[2]
RowFqn(row)       == row[3]
RowColumn(row)    == row[4]
RowValue(row)     == row[5]
RowStrategy(row)  == row[6]
RowAttrName(row)  == row[7]
RowAttrValue(row) == row[8]

Records == 1..Len(policies_obj)

\* The statements iteration i has passed to execute(), in call order.
StmtsOf(i) ==
    LET calls == SelectSeq(log, LAMBDA e : e.rec = i)
    IN  [k \in 1..Len(calls) |-> calls[k].stmt]

AllOk(i) == \A k \in 1..Len(log) : log[k].rec = i => log[k].ok

\* Iteration i is behind the loop.
Passed(i) == i < idx

IsPrefix(s, t) ==
    /\ Len(s) <= Len(t)
    /\ \A k \in 1..Len(s) : s[k] = t[k]

WantDelete(row) ==
    [ kind |-> "delete", table |-> RowFqn(row), column |-> RowColumn(row),
      value |-> RowValue(row) ]

WantReallocate(row) ==
    [ kind |-> "reallocate", table |-> RowFqn(row), column |-> RowColumn(row),
      value |-> RowValue(row), attribute_name |-> RowAttrName(row),
      attribute_value |-> RowAttrValue(row) ]

WantTrack(row) ==
    [ kind |-> "track", table |-> RowTable(row), schema |-> RowSchema(row),
      partition_value |-> RowValue(row) ]

\* The actions the specification asks for one record.
WantFor(row) ==
    IF RowStrategy(row) = "delete" THEN <<WantDelete(row)>>
    ELSE IF RowStrategy(row) = "reallocate" THEN <<WantReallocate(row), WantTrack(row)>>
    ELSE <<>>

RECURSIVE WantUpTo(_)
WantUpTo(n) ==
    IF n = 0 THEN <<>> ELSE WantUpTo(n - 1) \o WantFor(policies_obj[n])

\* The action sequence of the whole batch.
WantBatch == WantUpTo(Len(policies_obj))

\* C1: a record whose strategy is 'delete' gets exactly one action, the delete
\* of (table_fqn, column_name, partition_value); never a reallocation or a
\* tracking action, and never more than one call.
C1_DeleteEmitsOneDelete ==
    \A i \in Records :
        RowStrategy(policies_obj[i]) = "delete" =>
            /\ IsPrefix(StmtsOf(i), <<WantDelete(policies_obj[i])>>)
            /\ Passed(i) => StmtsOf(i) = <<WantDelete(policies_obj[i])>> /\ AllOk(i)

C1_Witness ==
    /\ status = "done"
    /\ Len(policies_obj) >= 2
    /\ \E i \in Records :
           /\ RowStrategy(policies_obj[i]) = "delete"
           /\ StmtsOf(i) = <<WantDelete(policies_obj[i])>>

\* C2: a record whose strategy is 'reallocate' gets exactly two actions, the
\* reallocation first and the tracking update second; the tracking update
\* records the record's partition_value and is never called before the
\* reallocation of the same record.
C2_ReallocateThenTrack ==
    \A i \in Records :
        RowStrategy(policies_obj[i]) = "reallocate" =>
            /\ IsPrefix(StmtsOf(i),
                        <<WantReallocate(policies_obj[i]), WantTrack(policies_obj[i])>>)
            /\ Passed(i) =>
                   /\ StmtsOf(i) = <<WantReallocate(policies_obj[i]),
                                     WantTrack(policies_obj[i])>>
                   /\ StmtsOf(i)[2].partition_value = RowValue(policies_obj[i])
                   /\ AllOk(i)

C2_Witness ==
    /\ status = "done"
    /\ \E i \in Records :
           /\ RowStrategy(policies_obj[i]) = "reallocate"
           /\ Len(StmtsOf(i)) = 2
           /\ StmtsOf(i)[1].kind = "reallocate"
           /\ StmtsOf(i)[2].kind = "track"

IsUnknown(row) == RowStrategy(row) \notin {"delete", "reallocate"}

\* C3: a record whose strategy is neither 'delete' nor 'reallocate' gets no
\* action and a diagnostic, it never is what makes the pass fail, and a pass
\* that returns has given every record the actions its own strategy requires.
C3_UnknownIsSkipped ==
    /\ \A i \in Records :
           IsUnknown(policies_obj[i]) =>
               /\ StmtsOf(i) = <<>>
               /\ Passed(i) => \E w \in 1..Len(warnings) : warnings[w] = i
    /\ status = "failed" =>
           /\ idx \in Records
           /\ ~IsUnknown(policies_obj[idx])
    /\ status = "done" =>
           \A j \in Records : StmtsOf(j) = WantFor(policies_obj[j]) /\ AllOk(j)

C3_Witness ==
    /\ status = "done"
    /\ \E i, j \in Records :
           /\ i < j
           /\ IsUnknown(policies_obj[i])
           /\ ~IsUnknown(policies_obj[j])
           /\ StmtsOf(i) = <<>>
           /\ StmtsOf(j) = WantFor(policies_obj[j])

Ascending(batch) ==
    \A i, j \in 1..Len(batch) : i < j => RowValue(batch[i]) <= RowValue(batch[j])

\* The partition values reallocated so far for one table.
ReallocatedSoFar(key) ==
    { RowValue(policies_obj[i]) : i \in
        { j \in Records :
            /\ Passed(j)
            /\ RowStrategy(policies_obj[j]) = "reallocate"
            /\ <<RowSchema(policies_obj[j]), RowTable(policies_obj[j])>> = key } }

MaxOf(S) == CHOOSE m \in S : \A x \in S : x <= m

\* The values the tracking statements called so far have saved for one table.
SavedValues(key) ==
    LET calls == SelectSeq(log, LAMBDA e :
                     /\ e.ok
                     /\ e.stmt.kind = "track"
                     /\ <<e.stmt.schema, e.stmt.table>> = key)
    IN  [k \in 1..Len(calls) |-> calls[k].stmt.partition_value]

C5_ActionsInInputOrder ==
    /\ \A a, b \in 1..Len(log) : a < b => log[a].rec <= log[b].rec
    /\ \A a \in 1..Len(log) :
           /\ log[a].rec \in Records
           /\ \E k \in 1..Len(WantFor(policies_obj[log[a].rec])) :
                  WantFor(policies_obj[log[a].rec])[k] = log[a].stmt
    /\ status = "done" => [k \in 1..Len(log) |-> log[k].stmt] = WantBatch

C5_Witness ==
    /\ status = "done"
    /\ Len(policies_obj) = MaxBatch
    /\ Len(log) >= 4
    /\ \E a \in 1..Len(log) : log[a].rec = 1
    /\ \E a \in 1..Len(log) : log[a].rec = MaxBatch

\* C10: a call that raises ends the pass: it is the last call, the pass is
\* failed from then on and stays at that record, no call is made twice, and
\* the calls made are a prefix of the calls of the whole batch.
C10_FailureEndsThePass ==
    /\ \A a \in 1..Len(log) :
           ~log[a].ok => a = Len(log) /\ status = "failed" /\ log[a].rec = idx
    /\ status = "failed" => Len(log) >= 1 /\ ~log[Len(log)].ok
    /\ IsPrefix([k \in 1..Len(log) |-> log[k].stmt], WantBatch)
    /\ \A a \in 1..Len(log) : log[a].rec <= idx

C10_Witness ==
    /\ status = "failed"
    /\ idx = 2
    /\ Len(policies_obj) = 3
    /\ ~IsUnknown(policies_obj[3])
    /\ Len(log) >= 2

---------------------------------------------------------------------------
(* nyc_taxi_dag.py : inputs *)

\* A URL is its "/"-separated segments.
YellowSegments == {"yellow_2019-01.csv"}

Urls ==
    { <<"s3", "yellow_2019-01.csv">>,
      <<"mirror", "yellow_2019-01.csv">>,
      <<"s3", "green_2019-01.csv">> }

TaskIds ==
    { "download_data_urls", "clean_data_urls", "get_processed_files",
      "identitfy_missing_urls", "purge_staging_init", "process_new_files" }

\* The retention pass is not part of the taxi DAG.
CleanupIdle ==
    /\ policies_obj = <<>>
    /\ idx = 0
    /\ step = 1
    /\ status = "done"
    /\ log = <<>>
    /\ warnings = <<>>
    /\ tracking = <<>>

---------------------------------------------------------------------------
(* nyc_taxi_dag.py : pure helpers *)

ToSet(list) == { list[i] : i \in DOMAIN list }

\* Every list that holds each element of S exactly once: list(a_set) in any order.
ListsOf(S) ==
    { l \in [1..Cardinality(S) -> S] : ToSet(l) = S }

\* "yellow" in element
ContainsYellow(element) ==
    \E i \in DOMAIN element : element[i] \in YellowSegments

\* list(filter(lambda element: "yellow" in element, data_urls))
FilterYellow(data_urls) ==
    SelectSeq(data_urls, ContainsYellow)

\* Mutant of MissingSet: the operands of the difference are exchanged.
MissingSet_reversed(data_urls_available, data_urls_processed) ==
    ToSet(data_urls_processed) \ ToSet(data_urls_available)

\* set(data_urls_available) - set(data_urls_processed)
MissingSet(data_urls_available, data_urls_processed) ==
    ToSet(data_urls_available) \ ToSet(data_urls_processed)

\* missing_url.split("/").pop()
FileName(missing_url) == missing_url[Len(missing_url)]

\* The rows COPY loads from a file: each row carries the file it came from.
RowsOf(missing_url) == <<missing_url>>

\* Mutant of Upstream: process_new_files waits for identitfy_missing_urls only.
Upstream_no_purge(t) ==
    IF t = "clean_data_urls" THEN {"download_data_urls"}
    ELSE IF t = "identitfy_missing_urls" THEN {"clean_data_urls", "get_processed_files"}
    ELSE IF t = "process_new_files" THEN {"identitfy_missing_urls"}
    ELSE {}

\* The upstream tasks of a task ("<<" and ">>" in the DAG definition).
Upstream(t) ==
    IF t = "clean_data_urls" THEN {"download_data_urls"}
    ELSE IF t = "identitfy_missing_urls" THEN {"clean_data_urls", "get_processed_files"}
    ELSE IF t = "process_new_files" THEN {"identitfy_missing_urls", "purge_staging_init"}
    ELSE {}

\* Airflow's default trigger rule: all upstream tasks succeeded.
Ready(t) ==
    /\ run >= 1
    /\ task[t] = "none"
    /\ \A u \in Upstream(t) : task[u] = "success"

\* A task that will never run in this DAG run: an upstream task failed.
RECURSIVE Blocked(_)
Blocked(t) ==
    \E u \in Upstream(t) : task[u] = "failed" \/ Blocked(u)

RunOver ==
    /\ run >= 1
    /\ \A t \in TaskIds : task[t] \in {"success", "failed"} \/ Blocked(t)

Finish(t, value) ==
    /\ task' = [task EXCEPT ![t] = "success"]
    /\ xcom' = [xcom EXCEPT ![t] = value]

Fail(t) ==
    /\ task' = [task EXCEPT ![t] = "failed"]
    /\ UNCHANGED xcom

MissingUrls == xcom["identitfy_missing_urls"]

InUrlLoop ==
    /\ run >= 1
    /\ task["process_new_files"] = "running"
    /\ url_idx <= Len(MissingUrls)

CurUrl == MissingUrls[url_idx]

TaxiCall(kind, ok) ==
    [ url   |-> CurUrl,
      kind  |-> kind,
      ok    |-> ok,
      moved |-> IF kind = "insert" /\ ok THEN load_trips_staging ELSE <<>> ]

\* Mutant of NextStep: the URL is marked as processed before the insert.
NextStep_mark_first(kind) ==
    IF kind = "copy" THEN "mark"
    ELSE IF kind = "mark" THEN "insert"
    ELSE IF kind = "insert" THEN "purge"
    ELSE "copy"

\* The statement that follows each statement of one iteration.
NextStep(kind) ==
    IF kind = "copy" THEN "insert"
    ELSE IF kind = "insert" THEN "mark"
    ELSE IF kind = "mark" THEN "purge"
    ELSE "copy"

\* include/taxi-insert.sql: the rows of staging are added to the permanent table.
InsertFromStaging == trips \o load_trips_staging

\* Mutant of MarkedValue: file_name is recorded in place of missing_url.
MarkedValue_file_name(missing_url) == <<FileName(missing_url)>>

\* The value INSERT INTO nyc_taxi.load_files_processed records.
MarkedValue(missing_url) == missing_url

---------------------------------------------------------------------------
(* nyc_taxi_dag.py : steps *)

NoXcom == [t \in TaskIds |-> <<>>]

InitTaxi ==
    /\ CleanupIdle
    /\ run = 1
    /\ task = [t \in TaskIds |-> "none"]
    /\ xcom = NoXcom
    /\ load_files_processed \in SeqsUpTo(Urls, MaxPreloaded)
    /\ load_trips_staging = <<>>
    /\ trips = <<>>
    /\ url_idx = 1
    /\ url_step = "copy"
    /\ taxi_log = <<>>
    /\ leftover = <<>>

download_data_urls ==
    /\ Ready("download_data_urls")
    /\ \E lines \in SeqsUpTo(Urls, MaxLines) :
           Finish("download_data_urls", lines)
    /\ UNCHANGED <<run, load_files_processed, load_trips_staging, trips,
                   url_idx, url_step, taxi_log, leftover>>
    /\ UNCHANGED cleanupVars

clean_data_urls ==
    /\ Ready("clean_data_urls")
    /\ Finish("clean_data_urls", FilterYellow(xcom["download_data_urls"]))
    /\ UNCHANGED <<run, load_files_processed, load_trips_staging, trips,
                   url_idx, url_step, taxi_log, leftover>>
    /\ UNCHANGED cleanupVars

get_processed_files ==
    /\ Ready("get_processed_files")
    /\ Finish("get_processed_files", load_files_processed)
    /\ UNCHANGED <<run, load_files_processed, load_trips_staging, trips,
                   url_idx, url_step, taxi_log, leftover>>
    /\ UNCHANGED cleanupVars

identitfy_missing_urls ==
    /\ Ready("identitfy_missing_urls")
    /\ \E result \in ListsOf(MissingSet(xcom["clean_data_urls"],
                                        xcom["get_processed_files"])) :
           Finish("identitfy_missing_urls", result)
    /\ UNCHANGED <<run, load_files_processed, load_trips_staging, trips,
                   url_idx, url_step, taxi_log, leftover>>
    /\ UNCHANGED cleanupVars

purge_staging_init ==
    /\ Ready("purge_staging_init")
    /\ load_trips_staging' = <<>>
    /\ Finish("purge_staging_init", <<>>)
    /\ UNCHANGED <<run, load_files_processed, trips,
                   url_idx, url_step, taxi_log, leftover>>
    /\ UNCHANGED cleanupVars

\* A task that talks to the network or the database raises.
task_fails ==
    /\ \E t \in {"download_data_urls", "get_processed_files", "purge_staging_init"} :
           Ready(t) /\ Fail(t)
    /\ UNCHANGED <<run, load_files_processed, load_trips_staging, trips,
                   url_idx, url_step, taxi_log, leftover>>
    /\ UNCHANGED cleanupVars

process_new_files_starts ==
    /\ Ready("process_new_files")
    /\ task' = [task EXCEPT !["process_new_files"] = "running"]
    /\ url_idx' = 1
    /\ url_step' = "copy"
    /\ UNCHANGED <<run, xcom, load_files_processed, load_trips_staging, trips,
                   taxi_log, leftover>>
    /\ UNCHANGED cleanupVars

copy_file ==
    /\ InUrlLoop
    /\ url_step = "copy"
    /\ load_trips_staging' = load_trips_staging \o RowsOf(CurUrl)
    /\ taxi_log' = Append(taxi_log, TaxiCall("copy", TRUE))
    /\ url_step' = NextStep("copy")
    /\ UNCHANGED <<run, task, xcom, load_files_processed, trips, url_idx, leftover>>
    /\ UNCHANGED cleanupVars

insert_trips ==
    /\ InUrlLoop
    /\ url_step = "insert"
    /\ trips' = InsertFromStaging
    /\ taxi_log' = Append(taxi_log, TaxiCall("insert", TRUE))
    /\ url_step' = NextStep("insert")
    /\ UNCHANGED <<run, task, xcom, load_files_processed, load_trips_staging,
                   url_idx, leftover>>
    /\ UNCHANGED cleanupVars

mark_processed ==
    /\ InUrlLoop
    /\ url_step = "mark"
    /\ load_files_processed' = Append(load_files_processed, MarkedValue(CurUrl))
    /\ taxi_log' = Append(taxi_log, TaxiCall("mark", TRUE))
    /\ url_step' = NextStep("mark")
    /\ UNCHANGED <<run, task, xcom, load_trips_staging, trips, url_idx, leftover>>
    /\ UNCHANGED cleanupVars

purge_staging ==
    /\ InUrlLoop
    /\ url_step = "purge"
    /\ load_trips_staging' = <<>>
    /\ taxi_log' = Append(taxi_log, TaxiCall("purge", TRUE))
    /\ url_step' = NextStep("purge")
    /\ url_idx' = url_idx + 1
    /\ UNCHANGED <<run, task, xcom, load_files_processed, trips, leftover>>
    /\ UNCHANGED cleanupVars

taxi_execute_raises ==
    /\ InUrlLoop
    /\ taxi_log' = Append(taxi_log, TaxiCall(url_step, FALSE))
    /\ Fail("process_new_files")
    /\ UNCHANGED <<run, load_files_processed, load_trips_staging, trips,
                   url_idx, url_step, leftover>>
    /\ UNCHANGED cleanupVars

process_new_files_returns ==
    /\ run >= 1
    /\ task["process_new_files"] = "running"
    /\ url_idx > Len(MissingUrls)
    /\ task' = [task EXCEPT !["process_new_files"] = "success"]
    /\ UNCHANGED <<run, xcom, load_files_processed, load_trips_staging, trips,
                   url_idx, url_step, taxi_log, leftover>>
    /\ UNCHANGED cleanupVars

\* The next scheduled DAG run starts once the current one is over.
next_dag_run ==
    /\ RunOver
    /\ run < MaxRuns
    /\ run' = run + 1
    /\ task' = [t \in TaskIds |-> "none"]
    /\ xcom' = NoXcom
    /\ url_idx' = 1
    /\ url_step' = "copy"
    /\ taxi_log' = <<>>
    /\ leftover' = load_trips_staging
    /\ UNCHANGED <<load_files_processed, load_trips_staging, trips>>
    /\ UNCHANGED cleanupVars

NextTaxi ==
    \/ download_data_urls
    \/ clean_data_urls
    \/ get_processed_files
    \/ identitfy_missing_urls
    \/ purge_staging_init
    \/ task_fails
    \/ process_new_files_starts
    \/ copy_file
    \/ insert_trips
    \/ mark_processed
    \/ purge_staging
    \/ taxi_execute_raises
    \/ process_new_files_returns
    \/ next_dag_run

SpecTaxi == InitTaxi /\ [][NextTaxi]_vars

---------------------------------------------------------------------------
(* nyc_taxi_dag.py : properties *)

Occurs(u, list) == \E i \in 1..Len(list) : list[i] = u

Available == xcom["clean_data_urls"]
Processed == xcom["get_processed_files"]

Identified == run >= 1 /\ task["identitfy_missing_urls"] = "success"

\* C6: the result of identitfy_missing_urls holds an identifier exactly when
\* the available list holds it and the processed list does not, and holds no
\* identifier twice; two identifiers are the same only when they are equal.
C6_MissingIsDifference ==
    Identified =>
        /\ \A u \in Urls :
               Occurs(u, MissingUrls) <=>
                   (Occurs(u, Available) /\ ~Occurs(u, Processed))
        /\ \A i \in 1..Len(MissingUrls) : MissingUrls[i] \in Urls
        /\ \A i, j \in 1..Len(MissingUrls) : i < j => MissingUrls[i] # MissingUrls[j]

C6_Witness ==
    /\ Identified
    /\ \E i, j \in 1..Len(Available) : i < j /\ Available[i] = Available[j]
    /\ \E i, j \in 1..Len(Processed) : i < j /\ Processed[i] = Processed[j]
    /\ \E u \in Urls : Occurs(u, Available) /\ Occurs(u, Processed)
    /\ \E u, w \in Urls :
           /\ FileName(u) = FileName(w)
           /\ Occurs(u, Processed) /\ ~Occurs(w, Processed)
           /\ Occurs(w, MissingUrls)

\* C7: the missing URLs computed against the processed list extended by the
\* result are none; and once process_new_files has returned, the missing URLs
\* computed against the table load_files_processed and the same available
\* list are none.
C7_FedBackResultIsEmpty ==
    /\ Identified => MissingSet(Available, Processed \o MissingUrls) = {}
    /\ (run >= 1 /\ task["process_new_files"] = "success") =>
           MissingSet(Available, load_files_processed) = {}

C7_Witness ==
    /\ run >= 1
    /\ task["process_new_files"] = "success"
    /\ Len(MissingUrls) >= 2
    /\ Len(Processed) >= 1

StepOrder == <<"copy", "insert", "mark", "purge">>

OkUrls(kind) ==
    LET calls == SelectSeq(taxi_log, LAMBDA e : e.ok /\ e.kind = kind)
    IN  [k \in 1..Len(calls) |-> calls[k].url]

\* C8: the calls of process_new_files are copy, insert, mark, purge for the
\* first missing URL, then the same four for the next one, and so on; only
\* the last call can have raised; a URL is in load_files_processed only when
\* the insert of its iteration has returned and its rows are in trips.
C8_FourStepsPerUrlInOrder ==
    run >= 1 =>
        /\ \A k \in 1..Len(taxi_log) :
               /\ taxi_log[k].kind = StepOrder[((k - 1) % 4) + 1]
               /\ ((k - 1) \div 4) + 1 <= Len(MissingUrls)
               /\ taxi_log[k].url = MissingUrls[((k - 1) \div 4) + 1]
               /\ ~taxi_log[k].ok => k = Len(taxi_log)
        /\ task["process_new_files"] # "none" =>
               load_files_processed = Processed \o OkUrls("mark")
        /\ \A k \in 1..Len(taxi_log) :
               (taxi_log[k].kind = "mark" /\ taxi_log[k].ok) =>
                   /\ k >= 2
                   /\ taxi_log[k - 1].kind = "insert"
                   /\ taxi_log[k - 1].ok
                   /\ taxi_log[k - 1].url = taxi_log[k].url
                   /\ \A r \in 1..Len(RowsOf(taxi_log[k].url)) :
                          Occurs(RowsOf(taxi_log[k].url)[r], trips)

C8_Witness ==
    /\ run >= 1
    /\ task["process_new_files"] = "success"
    /\ Len(taxi_log) = 8
    /\ taxi_log[4].url # taxi_log[5].url

\* C9: process_new_files runs only after purge_staging_init and
\* identitfy_missing_urls have succeeded; staging is empty whenever a COPY is
\* the next call; the rows an insert moves are the rows of its own URL.
C9_StagingEmptyAtCopy ==
    run >= 1 =>
        /\ task["process_new_files"] # "none" =>
               /\ task["purge_staging_init"] = "success"
               /\ task["identitfy_missing_urls"] = "success"
        /\ (InUrlLoop /\ url_step = "copy") => load_trips_staging = <<>>
        /\ \A k \in 1..Len(taxi_log) :
               (taxi_log[k].kind = "insert" /\ taxi_log[k].ok) =>
                   taxi_log[k].moved = RowsOf(taxi_log[k].url)

C9_Witness ==
    /\ run >= 2
    /\ leftover # <<>>
    /\ Len(taxi_log) >= 2
    /\ taxi_log[2].kind = "insert"
    /\ taxi_log[2].ok
    /\ taxi_log[2].moved = RowsOf(taxi_log[2].url)

====
